---- MODULE Spec2Model ----
(***************************************************************************)
(* The macOS platform facade of the windowing toolkit                      *)
(* (src/platform_impl/macos/mod.rs): the Window wrapper over               *)
(* WindowItem::{Raw, Unowned}, its construction, drop order, the           *)
(* is_maximized guard protocol on the window delegate, and the event       *)
(* bridge that the facade re-exports.                                      *)
(***************************************************************************)
EXTENDS Integers, Sequences, FiniteSets

\* ---------------------------------------------------------------- bounds
MaxWindows == 1
MaxPtr == 1
NumThreads == 2
MaxNative == 1
MaxUser == 1

Slots == 1..MaxWindows
Nil == 0
Ptrs == 1..MaxPtr
RawPtrs == {Nil} \cup Ptrs
Threads == 1..NumThreads

\* ----------------------------------------------------------------- state
VARIABLES
  item,               \* item[s]: the WindowItem of Window s (tag, pointer)
  shared,             \* shared[s]: the platform's bookkeeping holds a clone of the Arc
  delegateAlive,      \* delegateAlive[s]: the IdRef delegate has not been released
  isCheckingZoomedIn, \* isCheckingZoomedIn[s]: the delegate's guard flag
  registry,           \* AppState's registered windows
  pc,                 \* pc[t]: position of thread t inside is_maximized
  callWin,            \* callWin[t]: the Window thread t is calling is_maximized on
  f,                  \* f[t]: the local `f` of is_maximized
  lastResult,         \* what the last completed call returned to its caller
  nNative,            \* native notifications received by the loop so far
  nUser,              \* Proxy-sent user events received by the loop so far
  pending,            \* events queued in AppState, not yet handed to the handler
  delivered           \* the event the handler was handed last

vars == <<item, shared, delegateAlive, isCheckingZoomedIn, registry, pc, callWin,
          f, lastResult, nNative, nUser, pending, delivered>>

winVars == <<item, shared, delegateAlive, registry>>
callVars == <<pc, callWin, f>>
loopVars == <<nNative, nUser, pending, delivered>>

NoItem == [tag |-> "None", handle |-> Nil, window |-> Nil]
DroppedItem == [tag |-> "Dropped", handle |-> Nil, window |-> Nil]

\* WindowItem::Raw(NativeHandle(p))
Raw(p) == [tag |-> "Raw", handle |-> p, window |-> Nil]

\* WindowItem::Unowned(OwnedWindow{window, delegate}); `window` stands for the
\* ns_window pointer of the UnownedWindow behind the Arc.
Unowned(p) == [tag |-> "Unowned", handle |-> Nil, window |-> p]

\* The OwnedWindow of a Window that is being dropped: its `window` field (the
\* Arc) is gone, its `delegate` field is not yet.
Dropping(p) == [tag |-> "Dropping", handle |-> Nil, window |-> p]

\* What a completed call handed back to its caller.  outcome: "Ok", an OsError
\* variant, or "panic"; val: the pointer or boolean that came back, if any.
Result(op, outcome, val) == [op |-> op, outcome |-> outcome, val |-> val]

\* An event as AppState queues it: the position of its notification in the
\* order of receipt, its kind, and the guard flag the observer read.
Event(id, kind, guard) == [id |-> id, kind |-> kind, guarded |-> guard]
NoEvent == Event(0, "none", FALSE)

B2I(b) == IF b THEN 1 ELSE 0

Init ==
  /\ item = [s \in Slots |-> NoItem]
  /\ shared = [s \in Slots |-> FALSE]
  /\ delegateAlive = [s \in Slots |-> FALSE]
  /\ isCheckingZoomedIn = [s \in Slots |-> FALSE]
  /\ registry = {}
  /\ pc = [t \in Threads |-> "idle"]
  /\ callWin = [t \in Threads |-> 0]
  /\ f = [t \in Threads |-> FALSE]
  /\ lastResult = Result("none", "Ok", Nil)
  /\ nNative = 0
  /\ nUser = 0
  /\ pending = <<>>
  /\ delivered = NoEvent

\* The next Window value to be produced occupies the first unused slot.
FreeSlots == {s \in Slots : item[s].tag = "None"}
NextSlot == CHOOSE s \in FreeSlots : \A u \in FreeSlots : s <= u

\* Strong count of the Arc<UnownedWindow> of slot s: the Window's own field
\* while it has not been dropped, plus the clone held elsewhere.
Strong(s) == (IF item[s].tag = "Unowned" THEN 1 ELSE 0) + B2I(shared[s])

\* The native window resource lives as long as some Arc to it does.
NsAlive(s) == Strong(s) > 0

\* Notifications and user events the loop has received so far.
nReceived == nNative + nUser

InFlight(s) == \E t \in Threads : pc[t] # "idle" /\ callWin[t] = s

\* ------------------------------------------------------ Window construction
Widths == {0 - 1, 800}

\* UnownedWindow::new(attributes, pl_attribs): Ok((window, delegate)) with the
\* native pointer p, or an OsError.
UnownedWindowNew(width, cgFails, p) ==
  IF width < 0 THEN [ok |-> FALSE, err |-> "CreationError", ptr |-> Nil]
  ELSE IF cgFails THEN [ok |-> FALSE, err |-> "CGError", ptr |-> Nil]
  ELSE [ok |-> TRUE, err |-> "Ok", ptr |-> p]

\* AppState's registry after a native construction that ended as r for slot s.
RegistryAfterNew(r, s) == IF r.ok THEN registry \cup {s} ELSE registry

\* Window::new with the error of UnownedWindow::new dropped instead of
\* propagated: a Window is built and registered whatever the construction said.
newIgnoringErr(width, cgFails, p) ==
  LET r == UnownedWindowNew(width, cgFails, p) IN
  /\ FreeSlots # {}
  /\ item' = [item EXCEPT ![NextSlot] = Unowned(r.ptr)]
  /\ delegateAlive' = [delegateAlive EXCEPT ![NextSlot] = TRUE]
  /\ registry' = registry \cup {NextSlot}
  /\ lastResult' = Result("new", "Ok", Nil)
  /\ UNCHANGED <<shared, isCheckingZoomedIn, callVars, loopVars>>

\* Window::new
new(width, cgFails, p) ==
  LET r == UnownedWindowNew(width, cgFails, p) IN
  IF ~r.ok
  THEN \* `?`: the Err goes back to the caller, nothing is built
       /\ lastResult' = Result("new", r.err, Nil)
       /\ registry' = RegistryAfterNew(r, 0)
       /\ UNCHANGED <<item, shared, delegateAlive, isCheckingZoomedIn,
                      callVars, loopVars>>
  ELSE /\ FreeSlots # {}
       /\ item' = [item EXCEPT ![NextSlot] = Unowned(r.ptr)]
       /\ delegateAlive' = [delegateAlive EXCEPT ![NextSlot] = TRUE]
       /\ registry' = RegistryAfterNew(r, NextSlot)
       /\ lastResult' = Result("new", "Ok", Nil)
       /\ UNCHANGED <<shared, isCheckingZoomedIn, callVars, loopVars>>

\* from_raw_handle that also enters the wrapped window in AppState's registry.
from_raw_handle_registering(p) ==
  /\ FreeSlots # {}
  /\ item' = [item EXCEPT ![NextSlot] = Raw(p)]
  /\ registry' = registry \cup {NextSlot}
  /\ lastResult' = Result("from_raw_handle", "Ok", p)
  /\ UNCHANGED <<shared, delegateAlive, isCheckingZoomedIn, callVars, loopVars>>

\* Window::from_raw_handle
from_raw_handle(p) ==
  /\ FreeSlots # {}
  /\ item' = [item EXCEPT ![NextSlot] = Raw(p)]
  /\ lastResult' = Result("from_raw_handle", "Ok", p)
  /\ UNCHANGED <<shared, delegateAlive, isCheckingZoomedIn, registry,
                 callVars, loopVars>>

\* ------------------------------------------------------------- accessors
Live(s) == item[s].tag \in {"Raw", "Unowned"}

\* ns_window that answers nil for a Raw item instead of the stored handle.
ns_window_nil_for_raw(it) == IF it.tag = "Unowned" THEN it.window ELSE Nil

\* Window::ns_window
ns_window(it) == IF it.tag = "Unowned" THEN it.window ELSE it.handle

\* <Window as Deref>::deref: a reference for Unowned, todo!() for Raw
deref(it) == IF it.tag = "Unowned" THEN "Ok" ELSE "panic"

\* owned that hands back something for a Raw item instead of panicking.
owned_silent(it) == "Ok"

\* Window::owned: the OwnedWindow for Unowned, todo!() for anything else
owned(it) == IF it.tag = "Unowned" THEN "Ok" ELSE "panic"

\* A caller invokes ns_window() on Window s.
call_ns_window(s) ==
  /\ Live(s)
  /\ lastResult' = Result("ns_window", "Ok", ns_window(item[s]))
  /\ UNCHANGED <<winVars, isCheckingZoomedIn, callVars, loopVars>>

\* A caller invokes an UnownedWindow operation on Window s through Deref.
call_deref(s) ==
  /\ Live(s)
  /\ lastResult' = Result("deref", deref(item[s]),
                          IF deref(item[s]) = "Ok" THEN item[s].window ELSE Nil)
  /\ UNCHANGED <<winVars, isCheckingZoomedIn, callVars, loopVars>>

\* ------------------------------------------------------------------ drop
\* Dropping a Window whose item is Raw: NativeHandle owns nothing.
drop_raw(s) ==
  /\ item[s].tag = "Raw"
  /\ item' = [item EXCEPT ![s] = DroppedItem]
  /\ UNCHANGED <<shared, delegateAlive, isCheckingZoomedIn, registry, callVars,
                 lastResult, loopVars>>

\* Dropping an OwnedWindow, first field in declaration order: `window`, the
\* Arc<UnownedWindow>; its strong count goes down by one.  No borrow of the
\* Window is outstanding when it is dropped.
drop_window_field(s) ==
  /\ item[s].tag = "Unowned"
  /\ ~InFlight(s)
  /\ item' = [item EXCEPT ![s] = Dropping(item[s].window)]
  /\ UNCHANGED <<shared, delegateAlive, isCheckingZoomedIn, registry, callVars,
                 lastResult, loopVars>>

\* Dropping an OwnedWindow, second field: `delegate`, the IdRef; the delegate
\* object is released, and its flag with it.
drop_delegate_field(s) ==
  /\ item[s].tag = "Dropping"
  /\ item' = [item EXCEPT ![s] = DroppedItem]
  /\ delegateAlive' = [delegateAlive EXCEPT ![s] = FALSE]
  /\ isCheckingZoomedIn' = [isCheckingZoomedIn EXCEPT ![s] = FALSE]
  /\ UNCHANGED <<shared, registry, callVars, lastResult, loopVars>>

\* The platform's bookkeeping takes another strong reference to the
\* UnownedWindow of slot s.
arc_clone(s) ==
  /\ NsAlive(s)
  /\ ~shared[s]
  /\ shared' = [shared EXCEPT ![s] = TRUE]
  /\ UNCHANGED <<item, delegateAlive, isCheckingZoomedIn, registry, callVars,
                 lastResult, loopVars>>

\* ... and lets it go again.
arc_release(s) ==
  /\ shared[s]
  /\ shared' = [shared EXCEPT ![s] = FALSE]
  /\ UNCHANGED <<item, delegateAlive, isCheckingZoomedIn, registry, callVars,
                 lastResult, loopVars>>

\* ------------------------------------------------- observer and event loop
Kinds == {"zoom", "other"}

\* The window observer that forwards every notification, guarded or not.
ShouldForwardAlways(kind, guard) == TRUE

\* The window observer's decision for a notification of this kind, received
\* with the guard flag read as guard.
ShouldForward(kind, guard) == ~(kind = "zoom" /\ guard)

\* The loop receives one notification; the observer forwards it into
\* AppState's queue or suppresses it.
Receive(kind, guard) ==
  /\ IF kind = "user"
     THEN nUser' = nUser + 1 /\ UNCHANGED nNative
     ELSE nNative' = nNative + 1 /\ UNCHANGED nUser
  /\ pending' = IF ShouldForward(kind, guard)
                THEN Append(pending, Event(nReceived + 1, kind, guard))
                ELSE pending
  /\ UNCHANGED delivered

\* The OS invokes the callback target of the native window of slot s.  With
\* the delegate already released, the target dangles and the flag it reads is
\* whatever the freed memory holds.
native_notification(kind, s) ==
  /\ NsAlive(s)
  /\ nNative < MaxNative
  /\ \E g \in (IF delegateAlive[s] THEN {isCheckingZoomedIn[s]} ELSE BOOLEAN) :
       Receive(kind, g)
  /\ UNCHANGED <<winVars, isCheckingZoomedIn, callVars, lastResult>>

\* EventLoopProxy::send_event from any thread
send_event ==
  /\ nUser < MaxUser
  /\ Receive("user", FALSE)
  /\ UNCHANGED <<winVars, isCheckingZoomedIn, callVars, lastResult>>

\* One loop step that hands over the newest queued event instead of the oldest.
loop_step_newest_first ==
  /\ pending # <<>>
  /\ delivered' = pending[Len(pending)]
  /\ pending' = SubSeq(pending, 1, Len(pending) - 1)
  /\ UNCHANGED <<winVars, isCheckingZoomedIn, callVars, lastResult, nNative, nUser>>

\* One step of the event loop: the oldest queued event goes to the handler.
loop_step ==
  /\ pending # <<>>
  /\ delivered' = Head(pending)
  /\ pending' = Tail(pending)
  /\ UNCHANGED <<winVars, isCheckingZoomedIn, callVars, lastResult, nNative, nUser>>

\* ------------------------------------------------------------ is_maximized
\* line 128: self.owned(), then markIsCheckingZoomedIn on the delegate
markIsCheckingZoomedIn(t, s) ==
  /\ pc[t] = "idle"
  /\ Live(s)
  /\ IF owned(item[s]) = "panic"
     THEN /\ lastResult' = Result("is_maximized", "panic", Nil)
          /\ UNCHANGED <<isCheckingZoomedIn, callVars>>
     ELSE /\ isCheckingZoomedIn' = [isCheckingZoomedIn EXCEPT ![s] = TRUE]
          /\ pc' = [pc EXCEPT ![t] = "marked"]
          /\ callWin' = [callWin EXCEPT ![t] = s]
          /\ UNCHANGED <<f, lastResult>>
  /\ UNCHANGED <<winVars, loopVars>>

\* What UnownedWindow::is_zoomed can come back with: a boolean, or not at all.
ZoomOutcomes == {"true", "false", "fail"}

\* line 129: let f = self.owned().window.is_zoomed().  The query may make the
\* OS send a zoom notification to the observer before it returns.
is_zoomed(t, out, induce) ==
  /\ pc[t] = "marked"
  /\ LET s == callWin[t] IN
     IF out = "fail"
     THEN \* the call unwinds through is_maximized; line 130 is not reached
          /\ pc' = [pc EXCEPT ![t] = "idle"]
          /\ callWin' = [callWin EXCEPT ![t] = 0]
          /\ lastResult' = Result("is_maximized", "panic", Nil)
          /\ UNCHANGED <<f, loopVars>>
     ELSE /\ pc' = [pc EXCEPT ![t] = "queried"]
          /\ f' = [f EXCEPT ![t] = (out = "true")]
          /\ IF induce
             THEN /\ nNative < MaxNative
                  /\ Receive("zoom", isCheckingZoomedIn[s])
             ELSE UNCHANGED loopVars
          /\ UNCHANGED <<callWin, lastResult>>
  /\ UNCHANGED <<winVars, isCheckingZoomedIn>>

\* lines 130-131: clearIsCheckingZoomedIn on the delegate, then return f
clearIsCheckingZoomedIn(t) ==
  /\ pc[t] = "queried"
  /\ isCheckingZoomedIn' = [isCheckingZoomedIn EXCEPT ![callWin[t]] = FALSE]
  /\ lastResult' = Result("is_maximized", "Ok", B2I(f[t]))
  /\ pc' = [pc EXCEPT ![t] = "idle"]
  /\ callWin' = [callWin EXCEPT ![t] = 0]
  /\ f' = [f EXCEPT ![t] = FALSE]
  /\ UNCHANGED <<winVars, loopVars>>

\* ----------------------------------------------------------- specification
Next ==
  \/ \E w \in Widths, c \in BOOLEAN, p \in Ptrs : new(w, c, p)
  \/ \E p \in RawPtrs : from_raw_handle(p)
  \/ \E s \in Slots : call_ns_window(s)
  \/ \E s \in Slots : call_deref(s)
  \/ \E s \in Slots : drop_raw(s)
  \/ \E s \in Slots : drop_window_field(s)
  \/ \E s \in Slots : drop_delegate_field(s)
  \/ \E s \in Slots : arc_clone(s)
  \/ \E s \in Slots : arc_release(s)
  \/ \E k \in Kinds, s \in Slots : native_notification(k, s)
  \/ send_event
  \/ loop_step
  \/ \E t \in Threads, s \in Slots : markIsCheckingZoomedIn(t, s)
  \/ \E t \in Threads, o \in ZoomOutcomes, i \in BOOLEAN : is_zoomed(t, o, i)
  \/ \E t \in Threads : clearIsCheckingZoomedIn(t)

Spec == Init /\ [][Next]_vars

\* The facade on its own: Windows are made, used and dropped, and nothing
\* arrives from the OS or the Proxy meanwhile.
NextFacade ==
  \/ \E w \in Widths, c \in BOOLEAN, p \in Ptrs : new(w, c, p)
  \/ \E p \in RawPtrs : from_raw_handle(p)
  \/ \E s \in Slots : call_ns_window(s)
  \/ \E s \in Slots : call_deref(s)
  \/ \E s \in Slots : drop_raw(s)
  \/ \E s \in Slots : drop_window_field(s)
  \/ \E s \in Slots : drop_delegate_field(s)
  \/ \E t \in Threads, s \in Slots : markIsCheckingZoomedIn(t, s)
  \/ \E t \in Threads, o \in ZoomOutcomes : is_zoomed(t, o, FALSE)
  \/ \E t \in Threads : clearIsCheckingZoomedIn(t)

SpecFacade == Init /\ [][NextFacade]_vars

\* The guard protocol on its own: toolkit-made Windows, their is_maximized
\* calls from any thread, and the native notifications that reach the observer.
NextGuard ==
  \/ \E w \in Widths, c \in BOOLEAN, p \in Ptrs : new(w, c, p)
  \/ \E k \in Kinds, s \in Slots : native_notification(k, s)
  \/ loop_step
  \/ \E t \in Threads, s \in Slots : markIsCheckingZoomedIn(t, s)
  \/ \E t \in Threads, o \in ZoomOutcomes, i \in BOOLEAN : is_zoomed(t, o, i)
  \/ \E t \in Threads : clearIsCheckingZoomedIn(t)

SpecGuard == Init /\ [][NextGuard]_vars

\* The event loop on its own: toolkit-made Windows over their lifetime, and
\* what the OS and the Proxy send to the loop.
NextLoop ==
  \/ \E w \in Widths, c \in BOOLEAN, p \in Ptrs : new(w, c, p)
  \/ \E s \in Slots : drop_window_field(s)
  \/ \E s \in Slots : drop_delegate_field(s)
  \/ \E s \in Slots : arc_clone(s)
  \/ \E s \in Slots : arc_release(s)
  \/ \E k \in Kinds, s \in Slots : native_notification(k, s)
  \/ send_event
  \/ loop_step

SpecLoop == Init /\ [][NextLoop]_vars

TypeOK ==
  /\ \A s \in Slots : item[s].tag \in {"None", "Raw", "Unowned", "Dropping", "Dropped"}
  /\ nNative \in 0..MaxNative
  /\ nUser \in 0..MaxUser

\* ------------------------------------------------------------ properties
\* The window made by the last constructor call.
LastSlot == CHOOSE s \in Slots : item[s].tag # "None" /\
                                 \A u \in Slots : item[u].tag # "None" => u <= s

\* The translated Event stream: what is queued and what the handler saw last.
Stream == {pending[i] : i \in DOMAIN pending} \cup {delivered}

NoOwnedYet == \A s \in Slots : item[s].tag \in {"None", "Raw"}

\* C1: whenever no is_maximized call is running on a window, however the last
\* one ended, the guard flag of its delegate is false.
C1_GuardFalseAfterReturn ==
  \A s \in Slots : (delegateAlive[s] /\ ~InFlight(s)) => ~isCheckingZoomedIn[s]

\* C2: no zoom notification that the observer received with the guard flag
\* set is in the translated Event stream.
C2_GuardedZoomNeverForwarded ==
  \A e \in Stream : ~(e.kind = "zoom" /\ e.guarded)

\* A notification arrived while a guard flag was set, and nothing was ever
\* queued or delivered: it was suppressed.
C2_Witness ==
  /\ nReceived >= 1
  /\ pending = <<>>
  /\ delivered = NoEvent
  /\ \E t \in Threads : pc[t] = "queried" /\ isCheckingZoomedIn[callWin[t]]

\* C3: while the native window resource of a Window made by Window::new is
\* alive, its delegate has not been released.
C3_DelegateOutlivesNativeWindow ==
  \A s \in Slots : NsAlive(s) => delegateAlive[s]

\* C4: ns_window() right after from_raw_handle(NativeHandle(ptr)) returns ptr;
\* on a Raw Window it returns the stored handle and leaves it stored, and the
\* handle of a Raw Window never changes, so repeated calls return ptr again.
C4_RawHandleRoundTrip ==
  [][ /\ \A s \in Slots :
           (lastResult.op = "from_raw_handle" /\ s = LastSlot /\ call_ns_window(s))
             => lastResult'.val = lastResult.val
      /\ \A s \in Slots :
           (item[s].tag = "Raw" /\ call_ns_window(s))
             => (lastResult'.val = item[s].handle /\ item' = item)
      /\ \A s \in Slots :
           (item[s].tag = "Raw" /\ item'[s].tag = "Raw")
             => item'[s].handle = item[s].handle ]_vars

\* ns_window() has returned the non-nil pointer some Raw Window wraps, and no
\* Window of the other variant was ever made.
C4_Witness ==
  /\ lastResult.op = "ns_window"
  /\ lastResult.val # Nil
  /\ NoOwnedYet
  /\ \E s \in Slots : item[s] = Raw(lastResult.val)

\* C5: a Window::new whose native construction fails returns that OsError,
\* produces no Window and leaves AppState's registry as it was.
C5_FailedNewLeavesNothing ==
  [][ \A w \in Widths, c \in BOOLEAN, p \in Ptrs :
        (new(w, c, p) /\ ~UnownedWindowNew(w, c, p).ok)
          => /\ lastResult'.op = "new"
             /\ lastResult'.outcome \in {"CreationError", "CGError"}
             /\ item' = item
             /\ delegateAlive' = delegateAlive
             /\ registry' = registry ]_vars

\* A Window::new has just failed while an earlier window is still registered.
C5_Witness ==
  /\ lastResult.op = "new"
  /\ lastResult.outcome = "CreationError"
  /\ registry # {}
  /\ \A s \in Slots : item[s].tag # "None" => s \in registry

\* C6: an UnownedWindow operation through Deref, or is_maximized, on a Raw
\* Window ends in a panic, with no guard flag set, no thread past owned(), and
\* no event queued or delivered; no is_maximized call is ever in progress on
\* anything but an Unowned item.
C6_RawFailsFast ==
  [][ /\ \A s \in Slots :
           (item[s].tag = "Raw" /\ call_deref(s))
             => /\ lastResult'.outcome = "panic"
                /\ UNCHANGED <<item, isCheckingZoomedIn, pc, pending, delivered,
                               nNative, nUser>>
      /\ \A t \in Threads, s \in Slots :
           (item[s].tag = "Raw" /\ markIsCheckingZoomedIn(t, s))
             => /\ lastResult'.op = "is_maximized"
                /\ lastResult'.outcome = "panic"
                /\ UNCHANGED <<item, isCheckingZoomedIn, pc, pending, delivered,
                               nNative, nUser>>
      /\ \A t \in Threads :
           pc'[t] # "idle" => item'[callWin'[t]].tag = "Unowned" ]_vars

\* is_maximized has panicked, and only Raw Windows were ever made.
C6_Witness ==
  /\ lastResult.op = "is_maximized"
  /\ lastResult.outcome = "panic"
  /\ NoOwnedYet
  /\ \E s \in Slots : item[s].tag = "Raw"

\* C7: each loop step hands the handler exactly one event, received later
\* than the one handed over before it and earlier than every event still
\* queued; the queue itself is in order of receipt.
C7_DeliveryInArrivalOrder ==
  [][ /\ delivered' # delivered
           => /\ delivered'.id > delivered.id
              /\ Len(pending') = Len(pending) - 1
              /\ \A i \in DOMAIN pending' : pending'[i].id > delivered'.id
      /\ \A i, j \in DOMAIN pending' : i < j => pending'[i].id < pending'[j].id
    ]_vars

\* The handler has been handed the native event received first, and the
\* Proxy-sent event received after it waits in the queue.
C7_Witness ==
  /\ delivered.kind \in Kinds
  /\ delivered.id = 1
  /\ Len(pending) = 1
  /\ pending[1].kind = "user"
  /\ pending[1].id = 2

\* C8: from_raw_handle(NativeHandle(p)) yields the Raw item holding p and
\* changes nothing else: no registry entry, no delegate, no flag, no Arc.
C8_FromRawOnlyWraps ==
  [][ \A p \in RawPtrs :
        from_raw_handle(p)
          => /\ lastResult'.outcome = "Ok"
             /\ item'[NextSlot] = Raw(p)
             /\ \A s \in Slots \ {NextSlot} : item'[s] = item[s]
             /\ registry' = registry
             /\ delegateAlive' = delegateAlive
             /\ isCheckingZoomedIn' = isCheckingZoomedIn
             /\ shared' = shared ]_vars

\* from_raw_handle has just returned a Window around a non-nil pointer, and
\* the Window it made is neither registered nor has a delegate.
C8_Witness ==
  /\ lastResult.op = "from_raw_handle"
  /\ lastResult.val # Nil
  /\ item[LastSlot] = Raw(lastResult.val)
  /\ LastSlot \notin registry
  /\ ~delegateAlive[LastSlot]

\* C9: is_zoomed is only ever issued with the guard flag of its window set,
\* the flag is cleared by the call that has its result, and the value
\* returned is that result.
C9_QueryOnlyUnderGuard ==
  [][ /\ \A t \in Threads, o \in ZoomOutcomes, i \in BOOLEAN :
           is_zoomed(t, o, i) => isCheckingZoomedIn[callWin[t]]
      /\ \A t \in Threads :
           clearIsCheckingZoomedIn(t)
             => (pc[t] = "queried" /\ lastResult'.val = B2I(f[t])) ]_vars

\* C10: from markIsCheckingZoomedIn until its own is_zoomed has returned, a
\* call finds the guard flag of its window set, whatever other calls do.
C10_GuardHeldThroughQuery ==
  \A t \in Threads : pc[t] = "marked" => isCheckingZoomedIn[callWin[t]]

====
